---------------------------- MODULE Spec2Model ----------------------------
(***************************************************************************)
(* Model of the bullet-point editor of braindump (src/braindump/cli.py,    *)
(* edit_in_terminal): the document codec (frontmatter parse, display       *)
(* normalisation, clean-up, unchanged check, final content) and the        *)
(* key handlers of one edit session over a prompt_toolkit Buffer.          *)
(*                                                                         *)
(* Text is a sequence of one-character strings.  The five level glyphs of  *)
(* BULLET_CHARS are written with ASCII stand-ins:                          *)
(*    "*" U+2022   "o" U+25E6   ">" U+2023   "=" U+2043   "#" U+25AA       *)
(* "-" is the markdown hyphen, " " a space, "\n" a newline.                *)
(***************************************************************************)
EXTENDS Integers, Sequences, FiniteSets, TLC

VARIABLES
    content,               \* the file text read at session start (line 125)
    text,                  \* buffer.text
    cursor,                \* buffer.cursor_position (0-based offset)
    preferred_column,      \* Buffer.preferred_column, -1 for None
    last_enter_was_empty,  \* last_enter_was_empty[0]  (pendingExit)
    save_on_exit,          \* save_on_exit[0]
    next_file,             \* next_file[0], "" for None
    all_files,             \* the all_files argument, <<>> for None
    current_index,         \* the current_index argument
    pc,                    \* "running" (app.run), "exited" (after app.run), "done"
    exit_key,              \* the handler that ended app.run, "" while running
    keys,                  \* keystrokes handled so far
    file_exists,           \* whether filepath exists on disk
    file_content,          \* the text of filepath on disk
    file_ops,              \* the operations done on filepath by the session
    disk,                  \* the journal files of an `open` run: name -> state
    input,                 \* argument of the pure-function specifications
    output                 \* result of the pure-function specifications

vars == <<content, text, cursor, preferred_column, last_enter_was_empty,
          save_on_exit, next_file, all_files, current_index, pc, exit_key,
          keys, file_exists, file_content, file_ops, disk, input, output>>

bufferVars == <<text, cursor, preferred_column>>
flagVars   == <<last_enter_was_empty, save_on_exit, next_file, pc, exit_key>>
argVars    == <<content, all_files, current_index, disk>>
diskVars   == <<file_exists, file_content, file_ops>>
pureVars   == <<input, output>>

---------------------------------------------------------------------------
(* Characters *)

NL == "\n"
SP == " "
HY == "-"

BULLET_CHARS == <<"*", "o", ">", "=", "#">>
INDENT == <<SP, SP>>
MAX_LEVEL == 5

\* Python str.strip()/rstrip() without argument strip whitespace
IsSpace(c) == c \in {SP, NL, "\t"}

---------------------------------------------------------------------------
(* Python string primitives on sequences of characters *)

Min(a, b) == IF a <= b THEN a ELSE b
Max(a, b) == IF a >= b THEN a ELSE b

Spaces(n) == [i \in 1..n |-> SP]

\* s[a:] and s[:b] with 0-based offsets
From(s, a) == SubSeq(s, a + 1, Len(s))
Upto(s, b) == SubSeq(s, 1, b)

StartsWith(s, p) == Len(p) <= Len(s) /\ SubSeq(s, 1, Len(p)) = p

\* s.find(p, start): 0-based offset of the first occurrence at or after start, -1 if none
Find(s, p, start) ==
    LET hits == {i \in start..(Len(s) - Len(p)) : SubSeq(s, i + 1, i + Len(p)) = p}
    IN  IF hits = {} THEN -1 ELSE CHOOSE i \in hits : \A j \in hits : i <= j

\* s.rfind(p, 0, end): 0-based offset of the last occurrence inside s[0:end], -1 if none
RFind(s, p, end) ==
    LET hits == {i \in 0..(end - Len(p)) : SubSeq(s, i + 1, i + Len(p)) = p}
    IN  IF hits = {} THEN -1 ELSE CHOOSE i \in hits : \A j \in hits : i >= j

\* number of leading spaces: len(line) - len(line.lstrip(" "))
LeadingSpaces(line) ==
    CHOOSE n \in 0..Len(line) :
        /\ \A i \in 1..n : line[i] = SP
        /\ (n = Len(line) \/ line[n + 1] # SP)

LStripSpaces(line) == From(line, LeadingSpaces(line))

RStrip(s) ==
    LET n == CHOOSE k \in 0..Len(s) :
                 /\ (k = 0 \/ ~IsSpace(s[k]))
                 /\ \A i \in (k + 1)..Len(s) : IsSpace(s[i])
    IN  Upto(s, n)

LStrip(s) ==
    LET n == CHOOSE k \in 0..Len(s) :
                 /\ \A i \in 1..k : IsSpace(s[i])
                 /\ (k = Len(s) \/ ~IsSpace(s[k + 1]))
    IN  From(s, n)

Strip(s) == LStrip(RStrip(s))

\* s.split("\n")
RECURSIVE Split(_)
Split(s) ==
    LET i == Find(s, <<NL>>, 0)
    IN  IF i = -1 THEN <<s>> ELSE <<Upto(s, i)>> \o Split(From(s, i + 1))

\* "\n".join(lines)
RECURSIVE Join(_)
Join(lines) ==
    IF lines = <<>> THEN <<>>
    ELSE IF Len(lines) = 1 THEN lines[1]
    ELSE lines[1] \o <<NL>> \o Join(Tail(lines))

---------------------------------------------------------------------------
(* Document codec *)

FM_DELIM == <<HY, HY, HY>>

\* the parse that takes an opening delimiter for a frontmatter block even
\* when nothing closes it
DecodeUnclosed(raw) ==
    LET end_index == IF StartsWith(raw, FM_DELIM) THEN Find(raw, FM_DELIM, 3) ELSE -1
    IN  IF end_index # -1
        THEN [frontmatter_raw |-> Upto(raw, end_index + 3),
              body            |-> Strip(From(raw, end_index + 3))]
        ELSE IF StartsWith(raw, FM_DELIM)
        THEN [frontmatter_raw |-> FM_DELIM, body |-> Strip(From(raw, 3))]
        ELSE [frontmatter_raw |-> <<>>, body |-> raw]

\* lines 127-141: (frontmatter_raw, body) of the file text
Decode(raw) ==
    LET end_index == IF StartsWith(raw, FM_DELIM) THEN Find(raw, FM_DELIM, 3) ELSE -1
    IN  IF end_index # -1
        THEN [frontmatter_raw |-> Upto(raw, end_index + 3),
              body            |-> Strip(From(raw, end_index + 3))]
        ELSE [frontmatter_raw |-> <<>>, body |-> raw]

\* one glyph for every level
get_bullet_level_1(level) == <<BULLET_CHARS[1], SP>>

\* the glyph of the level without the space after it
get_bullet_without_space(level) ==
    <<BULLET_CHARS[Min(level - 1, Len(BULLET_CHARS) - 1) + 1]>>

\* lines 154-157
get_bullet_for_level(level) ==
    LET idx == Min(level - 1, Len(BULLET_CHARS) - 1)
    IN  <<BULLET_CHARS[idx + 1], SP>>

\* level of a line from its indentation: (spaces // 2) + 1
LineLevel(line) == (LeadingSpaces(line) \div 2) + 1

\* lines 163-175: one line of normalize_bullets
NormalizeBulletsLine(line) ==
    LET stripped == LStripSpaces(line)
        spaces   == LeadingSpaces(line)
        level    == (spaces \div 2) + 1
        markers  == {BULLET_CHARS[i] : i \in 1..Len(BULLET_CHARS)} \cup {"*", HY}
    IN  IF \E b \in markers : StartsWith(stripped, <<b, SP>>)
        THEN Spaces(spaces) \o get_bullet_for_level(level) \o From(stripped, 2)
        ELSE line

\* lines 159-176
normalize_bullets(t) ==
    LET lines == Split(t)
    IN  Join([i \in 1..Len(lines) |-> NormalizeBulletsLine(lines[i])])

\* the conversion with content = stripped[1:], one character short
InitialTextLineShortSlice(line) ==
    LET stripped == LStripSpaces(line)
        spaces   == LeadingSpaces(line)
        level    == (spaces \div 2) + 1
    IN  IF StartsWith(stripped, <<HY, SP>>) \/ StartsWith(stripped, <<"*", SP>>)
        THEN Spaces(spaces) \o get_bullet_for_level(level) \o From(stripped, 1)
        ELSE line

\* lines 183-197: one body line converted for display
InitialTextLine(line) ==
    LET stripped == LStripSpaces(line)
        spaces   == LeadingSpaces(line)
        level    == (spaces \div 2) + 1
    IN  IF StartsWith(stripped, <<HY, SP>>)
        THEN Spaces(spaces) \o get_bullet_for_level(level) \o From(stripped, 2)
        ELSE IF StartsWith(stripped, <<"*", SP>>)
        THEN Spaces(spaces) \o get_bullet_for_level(level) \o From(stripped, 2)
        ELSE line

\* the seeding that falls back to a bullet only when nothing at all was read
InitialTextEmptyOnly(body) ==
    LET lines == Split(body)
        converted == IF body # <<>>
                     THEN Join([i \in 1..Len(lines) |-> InitialTextLine(lines[i])])
                     ELSE <<>>
    IN  IF converted = <<>> THEN get_bullet_for_level(1) ELSE converted

\* lines 178-202: the text seeded into the buffer for a body
InitialText(body) ==
    LET lines == Split(body)
        converted == IF body # <<>>
                     THEN Join([i \in 1..Len(lines) |-> InitialTextLine(lines[i])])
                     ELSE <<>>
    IN  IF Strip(converted) = <<>> THEN get_bullet_for_level(1) ELSE converted

\* lines 597-602: a line that is just a level glyph
IsEmptyBulletLine(stripped) ==
    LET line_content == LStripSpaces(stripped)
    IN  \E i \in 1..Len(BULLET_CHARS) :
            line_content = <<BULLET_CHARS[i]>> \/ line_content = <<BULLET_CHARS[i], SP>>

\* the clean-up without the test for a line that is just a glyph
CleanLinesKeepingBareGlyphs(lines) ==
    SelectSeq([i \in 1..Len(lines) |-> RStrip(lines[i])], LAMBDA l : l # <<>>)

\* lines 591-605: the loop over the buffer's lines
RECURSIVE CleanLines(_)
CleanLines(lines) ==
    IF lines = <<>> THEN <<>>
    ELSE LET stripped == RStrip(Head(lines))
         IN  (IF stripped = <<>> \/ IsEmptyBulletLine(stripped)
              THEN <<>> ELSE <<stripped>>) \o CleanLines(Tail(lines))

\* lines 589-605
EditedLines(final_text) == CleanLines(Split(final_text))

\* normalize_line that knows the five glyphs but not the hyphen
normalize_line_glyphs_only(ln) ==
    LET s == RStrip(ln)
        c == LStripSpaces(s)
        spaces == Len(s) - Len(c)
        markers == {BULLET_CHARS[i] : i \in 1..Len(BULLET_CHARS)}
    IN  IF \E bc \in markers : StartsWith(c, <<bc, SP>>)
        THEN Spaces(spaces) \o <<"*", SP>> \o From(c, 2)
        ELSE s

\* lines 608-617
normalize_line(ln) ==
    LET s == RStrip(ln)
        c == LStripSpaces(s)
        spaces == Len(s) - Len(c)
        markers == {BULLET_CHARS[i] : i \in 1..Len(BULLET_CHARS)} \cup {HY}
    IN  IF \E bc \in markers : StartsWith(c, <<bc, SP>>)
        THEN Spaces(spaces) \o <<"*", SP>> \o From(c, 2)
        ELSE s

\* lines 621-624: the loop over the body's lines
RECURSIVE NormalizedNonBlank(_)
NormalizedNonBlank(lines) ==
    IF lines = <<>> THEN <<>>
    ELSE LET stripped == RStrip(Head(lines))
         IN  (IF stripped # <<>> THEN <<normalize_line(stripped)>> ELSE <<>>)
                 \o NormalizedNonBlank(Tail(lines))

\* lines 619-624
OriginalLines(body) ==
    IF body # <<>> THEN NormalizedNonBlank(Split(body)) ELSE <<>>

\* line 626
EditedNormalized(final_text) ==
    LET e == EditedLines(final_text) IN [i \in 1..Len(e) |-> normalize_line(e[i])]

\* the comparison without normalising the edited lines
IsUnchangedRaw(final_text, body) == EditedLines(final_text) = OriginalLines(body)

\* line 629
IsUnchanged(final_text, body) == EditedNormalized(final_text) = OriginalLines(body)

\* the content built with one newline between the frontmatter and the body
EncodeSingleNewline(frontmatter_raw, edited_lines) ==
    LET new_body == Join(edited_lines)
    IN  IF frontmatter_raw # <<>>
        THEN frontmatter_raw \o <<NL>> \o new_body \o <<NL>>
        ELSE new_body \o <<NL>>

\* lines 638-644
Encode(frontmatter_raw, edited_lines) ==
    LET new_body == Join(edited_lines)
    IN  IF frontmatter_raw # <<>>
        THEN frontmatter_raw \o <<NL, NL>> \o new_body \o <<NL>>
        ELSE new_body \o <<NL>>

---------------------------------------------------------------------------
(* prompt_toolkit Document: the line and column of the cursor *)

\* doc.cursor_position - doc.cursor_position_col: offset of the current line's start
LineStart(t, c) == RFind(t, <<NL>>, c) + 1

\* offset of the current line's end (the next newline, or the end of the text)
LineEnd(t, c) ==
    LET i == Find(t, <<NL>>, c) IN IF i = -1 THEN Len(t) ELSE i

\* doc.current_line
CurrentLine(t, c) == SubSeq(t, LineStart(t, c) + 1, LineEnd(t, c))

\* doc.cursor_position_col
Col(t, c) == c - LineStart(t, c)

\* doc.cursor_position_row: doc.text_before_cursor.count("\n")
Row(t, c) == Cardinality({i \in 1..c : t[i] = NL})

\* Document.translate_row_col_to_index, row and column clamped
TranslateRowCol(t, row, column) ==
    LET lines == Split(t)
        r     == Max(0, Min(row, Len(lines) - 1))
        start == IF r = 0 THEN 0
                 ELSE Len(Join(SubSeq(lines, 1, r))) + 1
    IN  Max(0, Min(start + Max(0, Min(column, Len(lines[r + 1]))), Len(t)))

---------------------------------------------------------------------------
(* Helpers of the key handlers *)

NoBullet == ""

\* the bullet info whose content starts right after the glyph, the space
\* that follows the glyph included
get_line_bullet_info_keeping_space(line) ==
    LET stripped == LStripSpaces(line)
        spaces   == LeadingSpaces(line)
        found    == {i \in 1..Len(BULLET_CHARS) : StartsWith(stripped, <<BULLET_CHARS[i], SP>>)}
    IN  IF found # {}
        THEN [spaces |-> spaces,
              bullet_char |-> BULLET_CHARS[CHOOSE i \in found : \A j \in found : i <= j],
              content |-> From(stripped, 1)]
        ELSE IF StartsWith(stripped, <<HY, SP>>)
        THEN [spaces |-> spaces, bullet_char |-> HY, content |-> From(stripped, 1)]
        ELSE [spaces |-> spaces, bullet_char |-> NoBullet, content |-> stripped]

\* lines 217-230: (indent_spaces, bullet_char, content) of a line
get_line_bullet_info(line) ==
    LET stripped == LStripSpaces(line)
        spaces   == LeadingSpaces(line)
        found    == {i \in 1..Len(BULLET_CHARS) : StartsWith(stripped, <<BULLET_CHARS[i], SP>>)}
    IN  IF found # {}
        THEN [spaces |-> spaces,
              bullet_char |-> BULLET_CHARS[CHOOSE i \in found : \A j \in found : i <= j],
              content |-> From(stripped, 2)]
        ELSE IF StartsWith(stripped, <<HY, SP>>)
        THEN [spaces |-> spaces, bullet_char |-> HY, content |-> From(stripped, 2)]
        ELSE [spaces |-> spaces, bullet_char |-> NoBullet, content |-> stripped]

\* lines 232-238
get_current_line_indent_level(t, c) ==
    (LeadingSpaces(CurrentLine(t, c)) \div 2) + 1

\* set_line_indent that moves the line but keeps the marker it had
set_line_indent_keeping_glyph(t, c, new_level) ==
    LET line       == CurrentLine(t, c)
        new_indent == Spaces(Len(INDENT) * (new_level - 1))
        new_line   == new_indent \o LStripSpaces(line)
        line_start == c - Col(t, c)
        line_end   == line_start + Len(line)
    IN  [text   |-> Upto(t, line_start) \o new_line \o From(t, line_end),
         cursor |-> line_start + Len(new_line)]

\* lines 240-279: the document (text, cursor) after set_line_indent
set_line_indent(t, c, new_level) ==
    LET line       == CurrentLine(t, c)
        info       == get_line_bullet_info(line)
        new_indent == Spaces(Len(INDENT) * (new_level - 1))
        new_bullet == get_bullet_for_level(new_level)
        new_line   == IF info.bullet_char # NoBullet
                      THEN new_indent \o new_bullet \o info.content
                      ELSE new_indent \o LStripSpaces(line)
        line_start == c - Col(t, c)
        line_end   == line_start + Len(line)
        old_col    == Col(t, c)
        old_prefix_len == info.spaces + (IF info.bullet_char # NoBullet THEN 2 ELSE 0)
        new_prefix_len == Len(new_indent) + Len(new_bullet)
        new_col    == IF old_col <= old_prefix_len
                      THEN new_prefix_len
                      ELSE old_col + (new_prefix_len - old_prefix_len)
    IN  [text   |-> Upto(t, line_start) \o new_line \o From(t, line_end),
         cursor |-> line_start + Max(0, Min(new_col, Len(new_line)))]

\* Buffer.set_document: a change of text or cursor forgets the preferred column
SetDocument(doc) ==
    /\ text' = doc.text
    /\ cursor' = doc.cursor
    /\ preferred_column' = IF doc.text = text /\ doc.cursor = cursor
                           THEN preferred_column ELSE -1

\* an insertion that goes to the end of the current line, not to the cursor
InsertTextAtLineEnd(data) ==
    /\ text' = Upto(text, LineEnd(text, cursor)) \o data \o From(text, LineEnd(text, cursor))
    /\ cursor' = LineEnd(text, cursor) + Len(data)
    /\ preferred_column' = -1

\* Buffer.insert_text at the cursor
InsertText(data) ==
    /\ text' = Upto(text, cursor) \o data \o From(text, cursor)
    /\ cursor' = cursor + Len(data)
    /\ preferred_column' = -1

---------------------------------------------------------------------------
(* Bounds and inputs *)

\* keystrokes handled in one session, the one that ends it included
MaxKeys == 4

\* characters the self-insert binding types
TypedChars == {"a", SP}

FM == <<HY, HY, HY, NL, "d", NL, HY, HY, HY>>

\* file texts a session is opened on
NewFile       == FM \o <<NL>>
HyphenFile    == FM \o <<NL, NL, HY, SP, "a", NL>>
TwoBulletFile == FM \o <<NL, NL, "*", SP, "a", NL, "*", SP, "b", NL>>
NestedFile    == FM \o <<NL, NL, "*", SP, "a", NL, SP, SP, "o", SP, "b", NL>>
DeepFile      == <<"*", SP, "a", NL>> \o Spaces(9) \o <<"#", SP, "b">>

InitialFiles == {NewFile, HyphenFile, TwoBulletFile, NestedFile, DeepFile}

\* (all_files, current_index) a session is started with: `new` passes neither
Contexts ==
    { <<<<>>, 0>>, <<<<"f1", "f2", "f3">>, 0>>, <<<<"f1", "f2", "f3">>, 2>> }

NoFile == ""

\* edit_in_terminal on its own: no other file of the journal is looked at
NoJournal == <<>>

---------------------------------------------------------------------------
(* The edit session *)

\* lines 125-207, 493-497: state when app.run() starts
Init ==
    /\ content \in InitialFiles
    /\ text = InitialText(Decode(content).body)
    /\ cursor = Len(text)
    /\ preferred_column = -1
    /\ last_enter_was_empty = FALSE
    /\ save_on_exit = FALSE
    /\ next_file = NoFile
    /\ \E ctx \in Contexts : all_files = ctx[1] /\ current_index = ctx[2]
    /\ pc = "running"
    /\ exit_key = ""
    /\ keys = 0
    /\ file_exists = TRUE
    /\ file_content = content
    /\ file_ops = <<>>
    /\ disk = NoJournal
    /\ input = <<>>
    /\ output = <<>>

\* a key arrives while app.run() waits for one
Key ==
    /\ pc = "running"
    /\ keys < MaxKeys
    /\ keys' = keys + 1

\* event.app.exit() from the handler of key k
Exit(k) ==
    /\ Key
    /\ pc' = "exited"
    /\ exit_key' = k
    /\ UNCHANGED <<bufferVars, last_enter_was_empty, argVars, diskVars, pureVars>>

\* Tab without the MAX_LEVEL test
HandleTabUnbounded ==
    /\ Key
    /\ SetDocument(set_line_indent(text, cursor,
                                   get_current_line_indent_level(text, cursor) + 1))
    /\ UNCHANGED <<flagVars, argVars, diskVars, pureVars>>

\* lines 281-286
HandleTab ==
    /\ Key
    /\ LET current_level == get_current_line_indent_level(text, cursor)
       IN  IF current_level < MAX_LEVEL
           THEN SetDocument(set_line_indent(text, cursor, current_level + 1))
           ELSE UNCHANGED bufferVars
    /\ UNCHANGED <<flagVars, argVars, diskVars, pureVars>>

\* Shift-Tab that rewrites the line at level 1 where it has nothing to lower
HandleShiftTabRewriting ==
    /\ Key
    /\ LET current_level == get_current_line_indent_level(text, cursor)
       IN  SetDocument(set_line_indent(text, cursor, Max(1, current_level - 1)))
    /\ UNCHANGED <<flagVars, argVars, diskVars, pureVars>>

\* lines 288-293
HandleShiftTab ==
    /\ Key
    /\ LET current_level == get_current_line_indent_level(text, cursor)
       IN  IF current_level > 1
           THEN SetDocument(set_line_indent(text, cursor, current_level - 1))
           ELSE UNCHANGED bufferVars
    /\ UNCHANGED <<flagVars, argVars, diskVars, pureVars>>

\* Confirm on an empty level-1 bullet that exits at the first press
enter_on_empty_level_1_exits_at_once ==
    /\ save_on_exit' = TRUE
    /\ pc' = "exited"
    /\ exit_key' = "enter"
    /\ UNCHANGED <<bufferVars, last_enter_was_empty, next_file>>

\* Confirm on an empty level-1 bullet whose first press also sends the
\* cursor to the end of the line
enter_on_empty_level_1_moving_cursor ==
    IF last_enter_was_empty
    THEN /\ save_on_exit' = TRUE
         /\ pc' = "exited"
         /\ exit_key' = "enter"
         /\ UNCHANGED <<bufferVars, last_enter_was_empty, next_file>>
    ELSE /\ last_enter_was_empty' = TRUE
         /\ cursor' = LineEnd(text, cursor)
         /\ UNCHANGED <<text, preferred_column, save_on_exit, next_file, pc, exit_key>>

\* lines 320-332: Confirm on an empty level-1 bullet
enter_on_empty_level_1 ==
    IF last_enter_was_empty
    THEN /\ save_on_exit' = TRUE
         /\ pc' = "exited"
         /\ exit_key' = "enter"
         /\ UNCHANGED <<bufferVars, last_enter_was_empty, next_file>>
    ELSE /\ last_enter_was_empty' = TRUE
         /\ UNCHANGED <<bufferVars, save_on_exit, next_file, pc, exit_key>>

\* handle_enter that sends an empty nested bullet straight to level 1
handle_enter_outdenting_to_top ==
    LET info == get_line_bullet_info(CurrentLine(text, cursor))
        current_level == (info.spaces \div 2) + 1
        indent == Spaces(info.spaces)
        is_empty_bullet == info.bullet_char # NoBullet /\ Strip(info.content) = <<>>
    IN  IF is_empty_bullet /\ current_level > 1
        THEN /\ SetDocument(set_line_indent(text, cursor, 1))
             /\ last_enter_was_empty' = FALSE
             /\ UNCHANGED <<save_on_exit, next_file, pc, exit_key>>
        ELSE IF is_empty_bullet
        THEN enter_on_empty_level_1
        ELSE /\ last_enter_was_empty' = FALSE
             /\ InsertText(<<NL>> \o indent \o get_bullet_for_level(current_level))
             /\ UNCHANGED <<save_on_exit, next_file, pc, exit_key>>

\* lines 301-340: what handle_enter does to the buffer and the flags
handle_enter ==
    LET info == get_line_bullet_info(CurrentLine(text, cursor))
        current_level == (info.spaces \div 2) + 1
        indent == Spaces(info.spaces)
        is_empty_bullet == info.bullet_char # NoBullet /\ Strip(info.content) = <<>>
    IN  IF is_empty_bullet /\ current_level > 1
        THEN /\ SetDocument(set_line_indent(text, cursor, current_level - 1))
             /\ last_enter_was_empty' = FALSE
             /\ UNCHANGED <<save_on_exit, next_file, pc, exit_key>>
        ELSE IF is_empty_bullet
        THEN enter_on_empty_level_1
        ELSE /\ last_enter_was_empty' = FALSE
             /\ InsertText(<<NL>> \o indent \o get_bullet_for_level(current_level))
             /\ UNCHANGED <<save_on_exit, next_file, pc, exit_key>>

\* lines 295-340
HandleEnter ==
    /\ Key
    /\ handle_enter
    /\ UNCHANGED <<argVars, diskVars, pureVars>>

\* lines 369-374: where the current line ends
backspace_line_end(t, c) ==
    LET newline_pos == Find(From(t, c), <<NL>>, 0)
    IN  IF newline_pos = -1 THEN Len(t) ELSE c + newline_pos

\* the merge that forgets to remove the newline before the line
merge_up_keeping_newline(t, line_start, line_end, content_after_bullet) ==
    [text   |-> Upto(t, line_start) \o content_after_bullet \o From(t, line_end),
     cursor |-> line_start]

\* lines 379-394: the document after merging the line into the previous one
merge_up(t, line_start, line_end, content_after_bullet) ==
    LET prev_newline == line_start - 1
    IN  [text   |-> Upto(t, prev_newline) \o content_after_bullet \o From(t, line_end),
         cursor |-> prev_newline]

\* the first-line branch without the test for content after the bullet
strip_first_bullet_always(t, c, line_end, content_after_bullet) ==
    [text |-> content_after_bullet \o From(t, line_end), cursor |-> 0]

\* lines 395-400: the document after the bullet of the first line is removed;
\* the same document when nothing follows the bullet
strip_first_bullet(t, c, line_end, content_after_bullet) ==
    IF content_after_bullet # <<>>
    THEN [text |-> content_after_bullet \o From(t, line_end), cursor |-> 0]
    ELSE [text |-> t, cursor |-> c]

\* lines 342-404
HandleBackspace ==
    /\ Key
    /\ last_enter_was_empty' = FALSE
    /\ LET current_line == CurrentLine(text, cursor)
           col  == Col(text, cursor)
           info == get_line_bullet_info(current_line)
           bullet_end == info.spaces + 1 + 1
           line_start == cursor - col
           line_end   == backspace_line_end(text, cursor)
       IN  IF cursor = 0
           THEN UNCHANGED bufferVars
           ELSE IF info.bullet_char # NoBullet /\ col = bullet_end
           THEN IF line_start > 0
                THEN SetDocument(merge_up(text, line_start, line_end, info.content))
                ELSE SetDocument(strip_first_bullet(text, cursor, line_end, info.content))
           \* buffer.delete_before_cursor(1)
           ELSE /\ text' = Upto(text, cursor - 1) \o From(text, cursor)
                /\ cursor' = cursor - 1
                /\ preferred_column' = -1
    /\ UNCHANGED <<save_on_exit, next_file, pc, exit_key, argVars, diskVars, pureVars>>

\* a save key that leaves the flag as the cancel key sets it
HandleSaveDiscarding ==
    /\ Exit("save")
    /\ save_on_exit' = FALSE
    /\ UNCHANGED next_file

\* lines 406-418
HandleSave ==
    /\ Exit("save")
    /\ save_on_exit' = TRUE
    /\ UNCHANGED next_file

\* a cancel key that sets the flag the save key sets
HandleCancelSaving ==
    /\ Exit("cancel")
    /\ save_on_exit' = TRUE
    /\ UNCHANGED next_file

\* lines 420-432
HandleCancel ==
    /\ Exit("cancel")
    /\ save_on_exit' = FALSE
    /\ UNCHANGED next_file

\* lines 434-438
HandleEscape ==
    /\ Exit("escape")
    /\ save_on_exit' = FALSE
    /\ UNCHANGED next_file

\* a cycle-next that names the next file without asking for a save
HandleNextNoteNotSaving ==
    /\ Len(all_files) > 1
    /\ Exit("next")
    /\ UNCHANGED save_on_exit
    /\ next_file' = all_files[((current_index + 1) % Len(all_files)) + 1]

\* lines 441-448
HandleNextNote ==
    /\ Len(all_files) > 1
    /\ Exit("next")
    /\ save_on_exit' = TRUE
    /\ next_file' = all_files[((current_index + 1) % Len(all_files)) + 1]

\* cycle-previous that stops at the first file instead of wrapping
HandlePrevNoteClamped ==
    /\ Len(all_files) > 1
    /\ Exit("prev")
    /\ save_on_exit' = TRUE
    /\ next_file' = all_files[Max(0, current_index - 1) + 1]

\* lines 450-456
HandlePrevNote ==
    /\ Len(all_files) > 1
    /\ Exit("prev")
    /\ save_on_exit' = TRUE
    /\ next_file' = all_files[((current_index - 1) % Len(all_files)) + 1]

\* lines 458-485
HandleDown ==
    /\ Key
    /\ LET lines == Split(text)
           current_line_num == Row(text, cursor)
       IN  IF current_line_num >= Len(lines) - 1
           THEN LET info == get_line_bullet_info(CurrentLine(text, cursor))
                    current_level == (info.spaces \div 2) + 1
                    new_bullet == <<NL>> \o Spaces(info.spaces)
                                     \o get_bullet_for_level(current_level)
                IN  /\ text' = text \o new_bullet
                    /\ cursor' = Len(text) + Len(new_bullet)
                    /\ preferred_column' = -1
           \* Buffer.cursor_down
           ELSE LET original_column == IF preferred_column > 0 THEN preferred_column
                                       ELSE Col(text, cursor)
                IN  /\ cursor' = TranslateRowCol(text, current_line_num + 1, original_column)
                    /\ preferred_column' = original_column
                    /\ UNCHANGED text
    /\ UNCHANGED <<flagVars, argVars, diskVars, pureVars>>

\* lines 487-491, Buffer.cursor_up
HandleUp ==
    /\ Key
    /\ LET original_column == IF preferred_column > 0 THEN preferred_column
                              ELSE Col(text, cursor)
       IN  /\ cursor' = TranslateRowCol(text, Max(0, Row(text, cursor) - 1), original_column)
           /\ preferred_column' = original_column
           /\ UNCHANGED text
    /\ UNCHANGED <<flagVars, argVars, diskVars, pureVars>>

\* default binding of a printable key: buffer.insert_text(ch)
InsertChar ==
    /\ Key
    /\ \E ch \in TypedChars : InsertText(<<ch>>)
    /\ UNCHANGED <<flagVars, argVars, diskVars, pureVars>>

\* default binding of the left arrow: one column left inside the current line
CursorLeft ==
    /\ Key
    /\ Col(text, cursor) > 0
    /\ cursor' = cursor - 1
    /\ preferred_column' = -1
    /\ UNCHANGED <<text, flagVars, argVars, diskVars, pureVars>>

\* lines 579-582: KeyboardInterrupt or EOFError out of app.run()
Interrupt ==
    /\ Exit("interrupt")
    /\ save_on_exit' = FALSE
    /\ UNCHANGED next_file

\* the save handling without the return at line 636: after the unchanged
\* branch it goes on to build and write the content
FinishFallingThrough ==
    /\ pc = "exited"
    /\ pc' = "done"
    /\ LET d == Decode(content)
           edited_lines == EditedLines(text)
           unlinked == IsUnchanged(text, d.body) /\ Len(OriginalLines(d.body)) = 0
       IN  IF save_on_exit
           THEN /\ file_content' = Encode(d.frontmatter_raw, edited_lines)
                /\ file_ops' = (IF unlinked THEN <<"unlink">> ELSE <<>>) \o <<"write">>
                /\ UNCHANGED file_exists
           ELSE UNCHANGED diskVars
    /\ UNCHANGED <<keys, bufferVars, last_enter_was_empty, save_on_exit, next_file,
                   exit_key, argVars, pureVars>>

\* lines 584-654: what follows app.run()
Finish ==
    /\ pc = "exited"
    /\ pc' = "done"
    /\ LET d == Decode(content)
           edited_lines == EditedLines(text)
       IN  IF save_on_exit
           THEN IF IsUnchanged(text, d.body)
                THEN IF Len(OriginalLines(d.body)) = 0
                     THEN /\ file_exists' = FALSE
                          /\ file_ops' = Append(file_ops, "unlink")
                          /\ UNCHANGED file_content
                     ELSE UNCHANGED diskVars
                ELSE /\ file_content' = Encode(d.frontmatter_raw, edited_lines)
                     /\ file_ops' = Append(file_ops, "write")
                     /\ UNCHANGED file_exists
           ELSE UNCHANGED diskVars
    /\ UNCHANGED <<keys, bufferVars, last_enter_was_empty, save_on_exit, next_file,
                   exit_key, argVars, pureVars>>

Next ==
    \/ HandleTab
    \/ HandleShiftTab
    \/ HandleEnter
    \/ HandleBackspace
    \/ HandleSave
    \/ HandleCancel
    \/ HandleEscape
    \/ HandleNextNote
    \/ HandlePrevNote
    \/ HandleDown
    \/ HandleUp
    \/ InsertChar
    \/ CursorLeft
    \/ Interrupt
    \/ Finish

Spec == Init /\ [][Next]_vars

---------------------------------------------------------------------------
(* Properties of the edit session *)

EmptyBullet == <<"*", SP>>

CurLevel(t, c) == LineLevel(CurrentLine(t, c))

Markers == {BULLET_CHARS[i] : i \in 1..Len(BULLET_CHARS)} \cup {HY}

FileUntouched == file_exists /\ file_content = content /\ file_ops = <<>>

\* C1: from a buffer that is a single empty level-1 bullet with pendingExit
\* false, the first Confirm sets pendingExit and keeps the session running;
\* the Confirm right after it ends the session with save_on_exit; the save
\* then has an empty body, and a file whose original body was empty is
\* deleted, not written.
DoubleConfirmSaves ==
    [][ /\ (HandleEnter /\ text = EmptyBullet /\ ~last_enter_was_empty)
            => (pc' = "running" /\ last_enter_was_empty' /\ ~save_on_exit')
        /\ (HandleEnter /\ text = EmptyBullet /\ last_enter_was_empty)
            => (pc' = "exited" /\ save_on_exit')
        /\ (Finish /\ exit_key = "enter" /\ text = EmptyBullet)
            => /\ save_on_exit'
               /\ EditedLines(text') = <<>>
               /\ (Decode(content).body = <<>>
                     => ~file_exists' /\ file_ops' = <<"unlink">>)
               /\ (Decode(content).body # <<>> => file_exists')
      ]_vars

DoubleConfirmWitness ==
    /\ pc = "done"
    /\ exit_key = "enter"
    /\ keys = 2
    /\ text = EmptyBullet
    /\ content = NewFile
    /\ ~file_exists

\* C2: every keystroke other than Confirm (increase-indent, decrease-indent,
\* delete-backward, move up, move down, character insertion) leaves
\* pendingExit cleared.
OtherKeysClearPendingExit ==
    [][ (HandleTab \/ HandleShiftTab \/ HandleBackspace \/ HandleUp
            \/ HandleDown \/ InsertChar)
          => ~last_enter_was_empty' ]_vars

\* C3: a session ended by the cancel key, Escape or an interrupt leaves the
\* file as it was read: not written, not deleted.
CancelLeavesFile ==
    (pc = "done" /\ exit_key \in {"cancel", "escape", "interrupt"})
        => (~save_on_exit /\ FileUntouched)

CancelWitness ==
    /\ pc = "done"
    /\ exit_key \in {"cancel", "escape", "interrupt"}
    /\ text # InitialText(Decode(content).body)
    /\ last_enter_was_empty
    /\ FileUntouched

\* C4: a saved session does exactly one of: delete the file (unchanged, and
\* the original body has no non-blank line), leave it untouched (unchanged,
\* original body non-empty), write the encoded edited content (changed).
SavedOutcome ==
    (pc = "done" /\ save_on_exit) =>
        LET d         == Decode(content)
            unchanged == EditedNormalized(text) = OriginalLines(d.body)
            empty     == OriginalLines(d.body) = <<>>
            deleted   == ~file_exists /\ file_ops = <<"unlink">>
            written   == /\ file_exists /\ file_ops = <<"write">>
                         /\ file_content = Encode(d.frontmatter_raw, EditedLines(text))
        IN  /\ deleted <=> (unchanged /\ empty)
            /\ FileUntouched <=> (unchanged /\ ~empty)
            /\ written <=> ~unchanged

SavedWitness ==
    /\ pc = "done"
    /\ save_on_exit
    /\ file_ops = <<"write">>
    /\ file_content # content
    /\ content = NestedFile

\* two lines that are equal but for the bullet marker that starts them
SameButMarker(l1, l2) ==
    \/ l1 = l2
    \/ /\ LeadingSpaces(l1) = LeadingSpaces(l2)
       /\ Len(l1) = Len(l2)
       /\ Len(l1) >= LeadingSpaces(l1) + 2
       /\ l1[LeadingSpaces(l1) + 1] \in Markers
       /\ l2[LeadingSpaces(l2) + 1] \in Markers
       /\ \A i \in 1..Len(l1) : i # LeadingSpaces(l1) + 1 => l1[i] = l2[i]
       /\ l1[LeadingSpaces(l1) + 2] = SP

DifferOnlyInMarkers(ls1, ls2) ==
    /\ Len(ls1) = Len(ls2)
    /\ \A i \in 1..Len(ls1) : SameButMarker(ls1[i], ls2[i])

\* C5: when the original body lines and the cleaned edited lines differ only
\* in the bullet marker that starts each line, a save writes nothing.
MarkerOnlyChangeNotWritten ==
    (/\ pc = "done" /\ save_on_exit
     /\ DifferOnlyInMarkers(Split(Decode(content).body), EditedLines(text)))
        => FileUntouched

MarkerOnlyWitness ==
    /\ pc = "done"
    /\ save_on_exit
    /\ content = HyphenFile
    /\ text = <<"*", SP, "a">>
    /\ keys = 1
    /\ FileUntouched

\* C6: increase-indent and decrease-indent keep a line's level within
\* 1..MAX_LEVEL: from a level in that range each of them leads to a level in
\* that range, so no sequence of them from level 1 leaves it.
IndentKeepsLevelInRange ==
    [][ ((HandleTab \/ HandleShiftTab) /\ CurLevel(text, cursor) \in 1..MAX_LEVEL)
          => CurLevel(text', cursor') \in 1..MAX_LEVEL ]_vars

IndentWitness ==
    /\ content = NewFile
    /\ pc = "running"
    /\ keys = 4
    /\ text = Spaces(8) \o <<"#", SP>>

\* C7: delete-backward at the first content character of a bullet line that
\* is not the first line removes the newline before it, its indentation and
\* its marker, appends its content to the previous line, and leaves the
\* cursor where the previous line ended; the other lines are unchanged.
BackspaceMerges ==
    [][ LET lines == Split(text)
            i     == Row(text, cursor) + 1
            info  == get_line_bullet_info(lines[i])
        IN  (/\ HandleBackspace
             /\ i > 1
             /\ info.bullet_char # NoBullet
             /\ Col(text, cursor) = info.spaces + 2)
              => /\ Split(text') = SubSeq(lines, 1, i - 2)
                                     \o <<lines[i - 1] \o info.content>>
                                     \o SubSeq(lines, i + 1, Len(lines))
                 /\ cursor' = Len(Join(SubSeq(lines, 1, i - 1)))
      ]_vars

BackspaceMergeWitness ==
    /\ content = TwoBulletFile
    /\ keys = 2
    /\ pc = "running"
    /\ text = <<"*", SP, "a", "b">>
    /\ cursor = 3

\* C8: move-down with the cursor on the last line appends a new line made of
\* the last line's indentation and the glyph of the last line's level and a
\* space, puts the cursor at its end, and changes no other line.
DownOnLastLineAppends ==
    [][ LET lines == Split(text)
            last  == lines[Len(lines)]
        IN  (HandleDown /\ Row(text, cursor) = Len(lines) - 1)
              => /\ Split(text') =
                        Append(lines, Spaces(LeadingSpaces(last))
                                        \o <<BULLET_CHARS[Min(LineLevel(last), MAX_LEVEL)], SP>>)
                 /\ cursor' = Len(text')
      ]_vars

DownAppendWitness ==
    /\ content = NestedFile
    /\ keys = 1
    /\ text = <<"*", SP, "a", NL, SP, SP, "o", SP, "b", NL, SP, SP, "o", SP>>
    /\ cursor = Len(text)

\* what the save handling leaves on disk for final buffer text t
SavedAs(t) ==
    LET d         == Decode(content)
        unchanged == EditedNormalized(t) = OriginalLines(d.body)
    IN  IF unchanged
        THEN (IF OriginalLines(d.body) = <<>>
              THEN ~file_exists /\ file_ops = <<"unlink">>
              ELSE FileUntouched)
        ELSE /\ file_exists
             /\ file_ops = <<"write">>
             /\ file_content = Encode(d.frontmatter_raw, EditedLines(t))

\* C11: explicit save ends the session with save_on_exit set, whatever
\* pendingExit is, and the buffer as it stands at that keystroke is what is
\* cleaned, compared and written.
SaveKeyEndsSaved ==
    /\ [][ /\ HandleSave => (pc' = "exited" /\ save_on_exit' /\ text' = text)
           /\ (Finish /\ exit_key = "save") => (save_on_exit /\ text' = text)
         ]_vars
    /\ [](pc = "done" /\ exit_key = "save" => SavedAs(text))

SaveKeyWitness ==
    /\ pc = "done"
    /\ exit_key = "save"
    /\ last_enter_was_empty
    /\ content = HyphenFile
    /\ text = EmptyBullet
    /\ file_ops = <<"write">>

\* C12: with n > 1 files and current index i, cycle-next ends the session as
\* saved with next target files[(i+1) mod n] (the first file after the last)
\* and cycle-previous with files[(i-1) mod n] (the last file before the first).
CycleTargets ==
    [][ LET n == Len(all_files)
        IN  /\ HandleNextNote =>
                 (/\ n > 1 /\ pc' = "exited" /\ save_on_exit'
                  /\ next_file' = (IF current_index = n - 1 THEN all_files[1]
                                   ELSE all_files[current_index + 2]))
            /\ HandlePrevNote =>
                 (/\ n > 1 /\ pc' = "exited" /\ save_on_exit'
                  /\ next_file' = (IF current_index = 0 THEN all_files[n]
                                   ELSE all_files[current_index]))
            /\ (Finish /\ exit_key \in {"next", "prev"}) => next_file' = next_file
      ]_vars

CycleWitness ==
    /\ pc = "done"
    /\ exit_key = "prev"
    /\ current_index = 0
    /\ all_files = <<"f1", "f2", "f3">>
    /\ next_file = "f3"
    /\ save_on_exit

\* C14: the file is written or deleted at most once in a session, never both,
\* and only after the session has terminated: while keys are handled the file
\* is as it was read.
FileTouchedOnceAtEnd ==
    /\ Len(file_ops) <= 1
    /\ pc \in {"running", "exited"} => FileUntouched

FileTouchedWitness ==
    /\ pc = "done"
    /\ file_ops = <<"unlink">>
    /\ ~file_exists
    /\ keys > 1

\* C16: Confirm on an empty bullet at level L > 1 rewrites that line as an
\* empty bullet at level L - 1, with the indentation and the glyph of L - 1,
\* keeps the session running, clears pendingExit and adds no line.
ConfirmOnEmptyNestedBulletOutdents ==
    [][ LET lines == Split(text)
            i     == Row(text, cursor) + 1
            info  == get_line_bullet_info(lines[i])
            L     == (info.spaces \div 2) + 1
        IN  (/\ HandleEnter
             /\ info.bullet_char # NoBullet
             /\ Strip(info.content) = <<>>
             /\ L > 1)
              => /\ pc' = "running"
                 /\ ~last_enter_was_empty'
                 /\ Len(Split(text')) = Len(lines)
                 /\ \A j \in 1..Len(lines) : j # i => Split(text')[j] = lines[j]
                 /\ LET after == get_line_bullet_info(Split(text')[i])
                    IN  /\ after.spaces = 2 * (L - 2)
                        /\ <<after.bullet_char, SP>> = get_bullet_for_level(L - 1)
                        /\ Strip(after.content) = <<>>
      ]_vars

ConfirmOutdentWitness ==
    /\ content = NewFile
    /\ keys = 3
    /\ pc = "running"
    /\ ~last_enter_was_empty
    /\ text = <<SP, SP, "o", SP>>
    /\ cursor = 4

\* C15 as stated: Confirm on a bullet line with non-empty content, at any
\* cursor column, clears pendingExit, leaves the current line's text
\* unchanged and inserts directly below it a line made only of the same
\* indentation and that level's marker, with the cursor at its end.
ConfirmAddsBulletBelow ==
    [][ LET lines == Split(text)
            i     == Row(text, cursor) + 1
            info  == get_line_bullet_info(lines[i])
            L     == (info.spaces \div 2) + 1
            fresh == Spaces(info.spaces) \o get_bullet_for_level(L)
        IN  (/\ HandleEnter
             /\ info.bullet_char # NoBullet
             /\ Strip(info.content) # <<>>)
              => /\ ~last_enter_was_empty'
                 /\ Split(text') = SubSeq(lines, 1, i) \o <<fresh>>
                                     \o SubSeq(lines, i + 1, Len(lines))
                 /\ Row(text', cursor') = i
                 /\ Col(text', cursor') = Len(fresh)
      ]_vars

\* C15, amended: Confirm on a bullet line with non-empty content clears
\* pendingExit and inserts, at the cursor, a line break followed by the line's
\* indentation and its level's marker: what was before the cursor stays on
\* the current line, what was after it follows the marker on the new line
\* directly below, and the cursor stands right after that marker.  With the
\* cursor at the end of the line the current line is unchanged and the new
\* line is the indentation and the marker only.
ConfirmSplitsAtCursor ==
    [][ LET lines == Split(text)
            i     == Row(text, cursor) + 1
            col   == Col(text, cursor)
            info  == get_line_bullet_info(lines[i])
            L     == (info.spaces \div 2) + 1
            fresh == Spaces(info.spaces) \o get_bullet_for_level(L)
        IN  (/\ HandleEnter
             /\ info.bullet_char # NoBullet
             /\ Strip(info.content) # <<>>)
              => /\ ~last_enter_was_empty'
                 /\ pc' = "running"
                 /\ Split(text') = SubSeq(lines, 1, i - 1)
                                     \o <<Upto(lines[i], col), fresh \o From(lines[i], col)>>
                                     \o SubSeq(lines, i + 1, Len(lines))
                 /\ Row(text', cursor') = i
                 /\ Col(text', cursor') = Len(fresh)
                 /\ col = Len(lines[i]) =>
                      /\ Split(text')[i] = lines[i]
                      /\ Split(text')[i + 1] = fresh
      ]_vars

ConfirmSplitWitness ==
    /\ content = HyphenFile
    /\ keys = 2
    /\ pc = "running"
    /\ text = <<"*", SP, NL, "*", SP, "a">>
    /\ cursor = 5

\* the line starts, after its indentation, with a level glyph and a space
IsBulletLine(line) ==
    \E i \in 1..Len(BULLET_CHARS) : StartsWith(LStripSpaces(line), <<BULLET_CHARS[i], SP>>)

\* number of line breaks in t
Newlines(t) == Cardinality({k \in 1..Len(t) : t[k] = NL})

\* C17 as stated: in every reachable state every non-blank buffer line
\* starts, after its indentation, with one of the five level glyphs and a
\* space.
EveryLineIsBullet ==
    \A i \in 1..Len(Split(text)) :
        Strip(Split(text)[i]) # <<>> => IsBulletLine(Split(text)[i])

\* C17, amended: every line the editor itself adds to the buffer is a bullet
\* line.  The seed of an empty body is one level-1 bullet, and every keystroke
\* that adds a line (Confirm on a line with content, move-down on the last
\* line) puts the cursor on a new line that starts with indentation, a level
\* glyph and a space.
EditorMadeLinesAreBullets ==
    /\ [](keys = 0 /\ Decode(content).body = <<>> => text = EmptyBullet)
    /\ [][ (Len(text') > Len(text) /\ Newlines(text') = Newlines(text) + 1)
             => /\ Newlines(Upto(text', cursor')) = Newlines(Upto(text, cursor)) + 1
                /\ IsBulletLine(CurrentLine(text', cursor'))
         ]_vars

\* a line made by Confirm stands below a first line that lost its marker
EditorMadeLinesWitness ==
    /\ content = TwoBulletFile
    /\ keys = 4
    /\ pc = "running"
    /\ text = <<"a", NL, "*", SP, "b", NL, "*", SP>>
    /\ cursor = 0

\* C18: in every reachable state every bullet line's glyph is the one
\* assigned to the level that the line's indentation gives (spaces \div 2 + 1).
GlyphMatchesLevel ==
    \A i \in 1..Len(Split(text)) :
        LET line == Split(text)[i]
        IN  IsBulletLine(line) =>
              StartsWith(LStripSpaces(line), get_bullet_for_level(LineLevel(line)))

\* C19: in every reachable state every buffer line's level (leading spaces
\* \div 2 + 1) lies in 1..MAX_LEVEL, and so does every line of a body written
\* on save.
LevelsInRange ==
    /\ \A i \in 1..Len(Split(text)) : LineLevel(Split(text)[i]) \in 1..MAX_LEVEL
    /\ file_ops = <<"write">> =>
         \A i \in 1..Len(Split(file_content)) :
             LineLevel(Split(file_content)[i]) \in 1..MAX_LEVEL

\* the lines of the body in the written file: what stands between the
\* frontmatter block with its two newlines and the final newline
WrittenLines ==
    LET fm     == Decode(content).frontmatter_raw
        prefix == IF fm # <<>> THEN Len(fm) + 2 ELSE 0
        body   == SubSeq(file_content, prefix + 1, Len(file_content) - 1)
    IN  IF body = <<>> THEN <<>> ELSE Split(body)

\* the line is a level glyph alone, with or without the space after it
IsBareGlyph(line) ==
    \E i \in 1..Len(BULLET_CHARS) :
        LStripSpaces(line) \in {<<BULLET_CHARS[i]>>, <<BULLET_CHARS[i], SP>>}

\* C22: every line of a body written on save is non-blank, has no trailing
\* whitespace and is not a bare level glyph; the written lines are exactly
\* the buffer lines, trailing whitespace removed, that are neither blank nor
\* a bare glyph, in buffer order.
WrittenLinesAreFiltered ==
    (pc = "done" /\ file_ops = <<"write">>) =>
        LET lines    == Split(text)
            stripped == [i \in 1..Len(lines) |-> RStrip(lines[i])]
        IN  /\ \A i \in 1..Len(WrittenLines) :
                   /\ Strip(WrittenLines[i]) # <<>>
                   /\ ~IsSpace(WrittenLines[i][Len(WrittenLines[i])])
                   /\ ~IsBareGlyph(WrittenLines[i])
            /\ WrittenLines = SelectSeq(stripped, LAMBDA l : l # <<>> /\ ~IsBareGlyph(l))

WrittenLinesWitness ==
    /\ pc = "done"
    /\ content = HyphenFile
    /\ text = <<"*", SP, "a", "a", NL, "*", SP>>
    /\ file_ops = <<"write">>
    /\ file_content = FM \o <<NL, NL, "*", SP, "a", "a", NL>>

\* C23: on a write the file content is the frontmatter block as it was read,
\* two newlines, the body lines joined by newlines and a final newline when
\* the file had a frontmatter block, and the body and a final newline
\* otherwise, whatever keys were pressed.
WriteFormat ==
    (pc = "done" /\ file_ops = <<"write">>) =>
        LET closing == IF StartsWith(content, FM_DELIM)
                       THEN Find(content, FM_DELIM, 3) ELSE -1
            body    == Join(EditedLines(text))
        IN  IF closing # -1
            THEN /\ SubSeq(file_content, 1, closing + 3) = SubSeq(content, 1, closing + 3)
                 /\ From(file_content, closing + 3) = <<NL, NL>> \o body \o <<NL>>
            ELSE file_content = body \o <<NL>>

WriteFormatWitness ==
    /\ pc = "done"
    /\ content = TwoBulletFile
    /\ keys = 2
    /\ text = <<"*", SP, "a", NL, "*", SP, "b", "a">>
    /\ file_content = FM \o <<NL, NL, "*", SP, "a", NL, "*", SP, "b", "a", NL>>

PrefixLen(line) ==
    LET info == get_line_bullet_info(line)
    IN  info.spaces + (IF info.bullet_char # NoBullet THEN 2 ELSE 0)

\* C25: increase-indent and decrease-indent put the cursor back k characters
\* into the content of the rewritten line when it was k characters into the
\* content, and right after the new marker when it was at or inside the old
\* indentation or marker.
IndentKeepsCursorInContent ==
    [][ LET before == CurrentLine(text, cursor)
            after  == CurrentLine(text', cursor')
            col    == Col(text, cursor)
        IN  (text' # text /\ (HandleTab \/ HandleShiftTab))
              => IF col > PrefixLen(before)
                 THEN Col(text', cursor') - PrefixLen(after) = col - PrefixLen(before)
                 ELSE Col(text', cursor') = PrefixLen(after)
      ]_vars

\* C26: increase-indent on a level-5 line and decrease-indent on a level-1
\* line are no-ops: text and cursor are unchanged and the session goes on.
IndentAtLimitIsNoOp ==
    [][ (\/ CurLevel(text, cursor) = MAX_LEVEL /\ HandleTab
         \/ CurLevel(text, cursor) = 1 /\ HandleShiftTab)
          => /\ text' = text
             /\ cursor' = cursor
             /\ pc' = "running"
      ]_vars

\* only Tab leaves the deep file's buffer and cursor as they were seeded
IndentAtLimitWitness ==
    /\ content = DeepFile
    /\ keys = 1
    /\ pc = "running"
    /\ text = DeepFile
    /\ cursor = Len(DeepFile)

\* C29: the first Confirm on an empty level-1 bullet changes only the
\* pendingExit flag: buffer text and cursor are the same before and after
\* it, saveOnExit stays false and the session goes on.
FirstConfirmOnlySetsFlag ==
    [][ LET info == get_line_bullet_info(CurrentLine(text, cursor))
        IN  (/\ ~last_enter_was_empty
             /\ info.bullet_char # NoBullet
             /\ Strip(info.content) = <<>>
             /\ info.spaces \div 2 = 0
             /\ HandleEnter)
              => /\ last_enter_was_empty'
                 /\ text' = text
                 /\ cursor' = cursor
                 /\ ~save_on_exit'
                 /\ pc' = "running"
      ]_vars

FirstConfirmWitness ==
    /\ content = NewFile
    /\ keys = 2
    /\ pc = "running"
    /\ last_enter_was_empty
    /\ text = EmptyBullet
    /\ cursor = 1

\* C31: a session holds a next file only when a cycle key ended it, and then
\* save_on_exit is true; a session ended by cancel, Escape, an interrupt, the
\* save key or the double confirm, and every session that was given no list
\* of several files, holds none; what follows app.run() leaves the target as
\* the key set it, so this is what the session returns.
NextFileOnlyFromCycleKey ==
    /\ [](next_file # NoFile => (exit_key \in {"next", "prev"} /\ save_on_exit))
    /\ [](exit_key \in {"cancel", "escape", "interrupt", "save", "enter"}
            => next_file = NoFile)
    /\ [](Len(all_files) <= 1 => next_file = NoFile)
    /\ [][pc = "exited" => next_file' = next_file]_vars

\* a session ended by cycle-next has returned the file after the current one
NextFileWitness ==
    /\ pc = "done"
    /\ exit_key = "next"
    /\ next_file # NoFile
    /\ save_on_exit

---------------------------------------------------------------------------
(* The codec alone: encode a body, write it, read it back and decode it *)

\* lines of a body handed to encode
MaxBodyLines == 2

BodyTexts == {<<"a">>, <<"a", SP, "b">>}

\* 2 x (level - 1) spaces, the level glyph, a space, the text
WellFormedLine(level, txt) ==
    Spaces(2 * (level - 1)) \o <<BULLET_CHARS[level], SP>> \o txt

WellFormedLines ==
    {WellFormedLine(l, t) : l \in 1..MAX_LEVEL, t \in BodyTexts}

WellFormedBodies == UNION {[1..n -> WellFormedLines] : n \in 0..MaxBodyLines}

\* frontmatter blocks as decode returns them
CodecFrontmatters ==
    {Decode(raw).frontmatter_raw :
        raw \in InitialFiles \cup {<<HY, HY, HY, HY, HY, HY, NL, "*", SP, "a">>}}

\* the non-blank lines of a decoded body (line 182 and lines 621-623)
BodyLines(body) == SelectSeq(Split(body), LAMBDA l : RStrip(l) # <<>>)

SessionIdle ==
    /\ content = <<>>
    /\ text = <<>>
    /\ cursor = 0
    /\ preferred_column = -1
    /\ last_enter_was_empty = FALSE
    /\ save_on_exit = FALSE
    /\ next_file = NoFile
    /\ all_files = <<>>
    /\ current_index = 0
    /\ exit_key = ""
    /\ keys = 0
    /\ disk = NoJournal

sessionVars == <<content, text, cursor, preferred_column, last_enter_was_empty,
                 save_on_exit, next_file, all_files, current_index, exit_key, keys,
                 disk>>

CodecInit ==
    /\ SessionIdle
    /\ pc = "encode"
    /\ input \in [frontmatter_raw : CodecFrontmatters, lines : WellFormedBodies]
    /\ output = <<>>
    /\ file_exists = FALSE
    /\ file_content = <<>>
    /\ file_ops = <<>>

\* lines 638-646: build the final content and write it
EncodeStep ==
    /\ pc = "encode"
    /\ pc' = "decode"
    /\ file_content' = Encode(input.frontmatter_raw, input.lines)
    /\ file_exists' = TRUE
    /\ file_ops' = Append(file_ops, "write")
    /\ UNCHANGED <<sessionVars, pureVars>>

\* lines 125-141: read the file and parse it
DecodeStep ==
    /\ pc = "decode"
    /\ pc' = "decoded"
    /\ output' = Decode(file_content)
    /\ UNCHANGED <<sessionVars, input, diskVars>>

CodecNext == EncodeStep \/ DecodeStep

SpecCodec == CodecInit /\ [][CodecNext]_vars

\* C9: decoding what encode produced returns the frontmatter block and the
\* body lines that were encoded, line for line with their indentation.
RoundTrip ==
    pc = "decoded" =>
        /\ output.frontmatter_raw = input.frontmatter_raw
        /\ BodyLines(output.body) = input.lines

---------------------------------------------------------------------------
(* Display normalisation alone: the conversion applied once and twice *)

\* leading spaces of a line, beside those of levels 5 and 6
MaxIndentSpaces == 2

\* lines of a body
MaxDisplayLines == 2

DisplayIndents == (0..MaxIndentSpaces) \cup {8, 10}

DisplayLines ==
    {Spaces(n) \o m \o c :
        n \in DisplayIndents,
        m \in {<<HY, SP>>, <<"*", SP>>, <<"o", SP>>, <<>>},
        c \in {<<>>, <<"a">>}}

DisplayBodies ==
    {Join(ls) : ls \in UNION {[1..n -> DisplayLines] : n \in 1..MaxDisplayLines}}

DisplayInit ==
    /\ SessionIdle
    /\ pc \in {"initial_text", "normalize_bullets"}
    /\ input \in DisplayBodies
    /\ output = <<>>
    /\ file_exists = FALSE
    /\ file_content = <<>>
    /\ file_ops = <<>>

DisplayArg == IF output = <<>> THEN input ELSE output[Len(output)]

\* lines 178-202 applied to the body, then to its own result
ApplyInitialText ==
    /\ pc = "initial_text"
    /\ Len(output) < 2
    /\ output' = Append(output, InitialText(DisplayArg))
    /\ UNCHANGED <<sessionVars, pc, input, diskVars>>

\* lines 159-176 applied to the body, then to its own result
ApplyNormalizeBullets ==
    /\ pc = "normalize_bullets"
    /\ Len(output) < 2
    /\ output' = Append(output, normalize_bullets(DisplayArg))
    /\ UNCHANGED <<sessionVars, pc, input, diskVars>>

DisplayNext == ApplyInitialText \/ ApplyNormalizeBullets

SpecDisplay == DisplayInit /\ [][DisplayNext]_vars

\* C10: converting a body for display twice gives the text that converting it
\* once gives.
DisplayIdempotent == Len(output) = 2 => output[2] = output[1]

DisplayWitness ==
    /\ pc = "initial_text"
    /\ Len(output) = 2
    /\ input = <<HY, SP, "a", NL, SP, SP, "*", SP, "a">>
    /\ output[1] = <<"*", SP, "a", NL, SP, SP, "o", SP, "a">>

\* the line with its marker replaced by the glyph of its indentation level,
\* or the line itself when it starts with no recognised marker
CanonicalLine(line) ==
    LET stripped == LStripSpaces(line)
        marked   == \/ StartsWith(stripped, <<HY, SP>>)
                    \/ \E i \in 1..Len(BULLET_CHARS) : StartsWith(stripped, <<BULLET_CHARS[i], SP>>)
    IN  IF marked
        THEN Spaces(LeadingSpaces(line)) \o get_bullet_for_level(LineLevel(line)) \o From(stripped, 2)
        ELSE line

\* C20: every body line that starts, after its indentation, with a hyphen,
\* the plain bullet glyph or one of the five level glyphs and a space is
\* seeded with the glyph of its indentation level and its indentation kept;
\* a line without a recognised marker is seeded unchanged.
SeedIsCanonical ==
    (pc = "initial_text" /\ Len(output) >= 1 /\ Strip(input) # <<>>)
      => /\ Len(Split(output[1])) = Len(Split(input))
         /\ \A i \in 1..Len(Split(input)) :
                Split(output[1])[i] = CanonicalLine(Split(input)[i])

---------------------------------------------------------------------------
(* The `open` command: sessions chained by note cycling *)

\* get_sorted_files at line 1220: the list is computed once
OpenFiles == <<"f1", "f2">>

\* journals the command is run on; "f1" of the first is a note with no body
JournalDisks ==
    { [f \in {"f1", "f2"} |-> [exists |-> TRUE,
                               text |-> IF f = "f1" THEN NewFile ELSE HyphenFile]],
      [f \in {"f1", "f2"} |-> [exists |-> TRUE,
                               text |-> IF f = "f1" THEN HyphenFile ELSE TwoBulletFile]] }

\* files.index(f)
FilesIndex(files, f) == (CHOOSE i \in 1..Len(files) : files[i] = f) - 1

\* lines 1220-1238: the first session, on files[file_id - 1]
OpenInit ==
    /\ disk \in JournalDisks
    /\ all_files = OpenFiles
    /\ current_index \in 0..(Len(all_files) - 1)
    /\ content = disk[all_files[current_index + 1]].text
    /\ text = InitialText(Decode(content).body)
    /\ cursor = Len(text)
    /\ preferred_column = -1
    /\ last_enter_was_empty = FALSE
    /\ save_on_exit = FALSE
    /\ next_file = NoFile
    /\ pc = "running"
    /\ exit_key = ""
    /\ keys = 0
    /\ file_exists = TRUE
    /\ file_content = content
    /\ file_ops = <<>>
    /\ input = <<>>
    /\ output = <<>>

\* the journal once the session that returned has written or unlinked its file
DiskAfterSession ==
    [disk EXCEPT ![all_files[current_index + 1]] =
                    [exists |-> file_exists, text |-> file_content]]

\* lines 1243-1244: edit_in_terminal returned None, the loop ends
OpenLoopBreak ==
    /\ pc = "done"
    /\ next_file = NoFile
    /\ pc' = "closed"
    /\ disk' = DiskAfterSession
    /\ UNCHANGED <<content, all_files, current_index, bufferVars, last_enter_was_empty,
                   save_on_exit, next_file, exit_key, keys, diskVars, pureVars>>

\* lines 1239-1242, then 125-207 of the next call: the session on next_filepath
OpenLoopNextSession ==
    /\ pc = "done"
    /\ next_file # NoFile
    /\ DiskAfterSession[next_file].exists
    /\ disk' = DiskAfterSession
    /\ current_index' = FilesIndex(all_files, next_file)
    /\ content' = DiskAfterSession[next_file].text
    /\ text' = InitialText(Decode(content').body)
    /\ cursor' = Len(text')
    /\ preferred_column' = -1
    /\ last_enter_was_empty' = FALSE
    /\ save_on_exit' = FALSE
    /\ next_file' = NoFile
    /\ pc' = "running"
    /\ exit_key' = ""
    /\ file_exists' = TRUE
    /\ file_content' = content'
    /\ file_ops' = <<>>
    /\ UNCHANGED <<all_files, keys, pureVars>>

\* lines 1239-1242, then line 125 of the next call: read_text on a file that
\* is no longer there raises FileNotFoundError, which nothing catches
OpenLoopReadRaises ==
    /\ pc = "done"
    /\ next_file # NoFile
    /\ ~DiskAfterSession[next_file].exists
    /\ pc' = "raised"
    /\ disk' = DiskAfterSession
    /\ current_index' = FilesIndex(all_files, next_file)
    /\ UNCHANGED <<content, all_files, bufferVars, last_enter_was_empty,
                   save_on_exit, next_file, exit_key, keys, diskVars, pureVars>>

OpenNext ==
    \/ HandleTab
    \/ HandleShiftTab
    \/ HandleEnter
    \/ HandleBackspace
    \/ HandleSave
    \/ HandleCancel
    \/ HandleEscape
    \/ HandleNextNote
    \/ HandlePrevNote
    \/ HandleDown
    \/ HandleUp
    \/ InsertChar
    \/ CursorLeft
    \/ Interrupt
    \/ Finish
    \/ OpenLoopBreak
    \/ OpenLoopNextSession
    \/ OpenLoopReadRaises

SpecOpen == OpenInit /\ [][OpenNext]_vars

\* C13: in an `open` run, whatever the sequence of cycle, save and cancel
\* outcomes, the file chosen as the next session's target still exists when
\* that session starts to read it: starting a session never raises.
NextTargetExists == pc # "raised"

---------------------------------------------------------------------------
(* Sessions on many file texts, ended by the first key *)

\* lines a file text is made of
MaxFileLines == 2

FileLines ==
    { <<>>, <<SP>>, <<"a">>,
      <<"*", SP, "a">>, <<HY, SP, "a">>, <<"*", SP, "a", SP>>,
      <<SP, SP, "o", SP, "a">>, <<SP, SP, HY, SP, "a">>,
      <<"o", SP, "a">>, <<"*", SP>>, <<HY, SP>> }

FileBodies ==
    {<<>>} \cup {Join(ls) : ls \in UNION {[1..n -> FileLines] : n \in 1..MaxFileLines}}

\* what stands before the body: nothing, a frontmatter block, or an opening
\* delimiter that is never closed
FilePrefixes == { <<>>, FM \o <<NL, NL>>, <<HY, HY, HY, NL>> }

FileTexts == {p \o b : p \in FilePrefixes, b \in FileBodies}

\* line 125: edit_in_terminal has read one of the texts
NoEditInit ==
    /\ content \in FileTexts
    /\ text = <<>>
    /\ cursor = 0
    /\ preferred_column = -1
    /\ last_enter_was_empty = FALSE
    /\ save_on_exit = FALSE
    /\ next_file = NoFile
    /\ all_files = <<"f1", "f2", "f3">>
    /\ current_index = 0
    /\ pc = "read"
    /\ exit_key = ""
    /\ keys = 0
    /\ file_exists = TRUE
    /\ file_content = content
    /\ file_ops = <<>>
    /\ disk = NoJournal
    /\ input = <<>>
    /\ output = <<>>

\* lines 127-207, 493-497: the body is seeded into the buffer, app.run() starts
StartSession ==
    /\ pc = "read"
    /\ pc' = "running"
    /\ text' = InitialText(Decode(content).body)
    /\ cursor' = Len(text')
    /\ preferred_column' = -1
    /\ last_enter_was_empty' = FALSE
    /\ save_on_exit' = FALSE
    /\ next_file' = NoFile
    /\ UNCHANGED <<exit_key, keys, argVars, diskVars, pureVars>>

\* the start, the keys that end a session, and what follows app.run()
NoEditNext ==
    \/ StartSession
    \/ HandleSave
    \/ HandleCancel
    \/ HandleEscape
    \/ HandleNextNote
    \/ HandlePrevNote
    \/ Interrupt
    \/ Finish

SpecNoEdit == NoEditInit /\ [][NoEditNext]_vars

\* C21: when the decoded body is empty or blank the session starts running
\* with the buffer equal to one empty level-1 bullet, the cursor at the end
\* of the text, and pendingExit and saveOnExit both false.
BlankBodyStartsWithOneBullet ==
    (pc = "running" /\ keys = 0 /\ Strip(Decode(content).body) = <<>>)
      => /\ text = EmptyBullet
         /\ cursor = 2
         /\ ~last_enter_was_empty
         /\ ~save_on_exit

BlankBodyWitness ==
    /\ keys = 0
    /\ content = <<SP, NL, SP>>
    /\ text = <<"*", SP>>
    /\ pc = "running"

\* the file text has no frontmatter block: it does not start with the
\* delimiter, or nothing closes the delimiter it starts with
NoFrontmatterBlock(raw) ==
    ~StartsWith(raw, FM_DELIM) \/ Find(raw, FM_DELIM, 3) = -1

\* C27: the decode of a text with no frontmatter block yields an empty
\* frontmatter_raw and the whole text as body, so the session is seeded from
\* the whole text, and a later write of such a file is the body lines and a
\* final newline with no frontmatter block before them.
NoFrontmatterIsAllBody ==
    NoFrontmatterBlock(content) =>
        /\ Decode(content) = [frontmatter_raw |-> <<>>, body |-> content]
        /\ pc # "read" => text = InitialText(content)
        /\ file_ops = <<"write">> => file_content = Join(EditedLines(text)) \o <<NL>>

NoFrontmatterWitness ==
    /\ pc = "done"
    /\ content = <<HY, HY, HY, NL, "*", SP>>
    /\ file_ops = <<"write">>
    /\ file_content = <<HY, HY, HY, NL>>

\* C28: for a file whose body has at least one non-blank line, a session
\* ended by explicit save or by a cycle key with no keystroke before it
\* leaves the file exactly as it was read: no write and no delete.
SaveWithoutEditKeepsFile ==
    (/\ pc = "done"
     /\ keys = 1
     /\ exit_key \in {"save", "next", "prev"}
     /\ Strip(Decode(content).body) # <<>>)
      => FileUntouched

---------------------------------------------------------------------------
(* Runs of Confirm from an empty bullet *)

\* buffers whose current line is an empty bullet at level L, with an odd
\* space of indentation or spaces after the marker, alone or between lines
ConfirmBuffers ==
    { [level  |-> L,
       text   |-> before \o Spaces(2 * (L - 1) + odd) \o get_bullet_for_level(L) \o pad \o after,
       cursor |-> Len(before) + col,
       on_line |-> col <= 2 * (L - 1) + odd + 2 + Len(pad)] :
        L \in 1..MAX_LEVEL, odd \in {0, 1}, pad \in {<<>>, <<SP>>},
        before \in {<<>>, <<"*", SP, "a", NL>>},
        after \in {<<>>, <<NL, "*", SP, "b">>},
        col \in 0..(2 * MAX_LEVEL + 2) }

\* lines 204-207 and the handlers before: a session in which the cursor has
\* come to stand on an empty bullet; input keeps the level it had there
ConfirmInit ==
    /\ content = TwoBulletFile
    /\ \E b \in ConfirmBuffers :
          /\ b.on_line
          /\ text = b.text
          /\ cursor = b.cursor
          /\ input = b.level
    /\ preferred_column = -1
    /\ last_enter_was_empty = FALSE
    /\ save_on_exit = FALSE
    /\ next_file = NoFile
    /\ all_files = <<>>
    /\ current_index = 0
    /\ pc = "running"
    /\ exit_key = ""
    /\ keys = 0
    /\ file_exists = TRUE
    /\ file_content = content
    /\ file_ops = <<>>
    /\ disk = NoJournal
    /\ output = <<>>

\* lines 295-340: one more Confirm, counted in keys
ConfirmKey ==
    /\ pc = "running"
    /\ keys' = keys + 1
    /\ handle_enter
    /\ UNCHANGED <<argVars, diskVars, pureVars>>

ConfirmNext ==
    \/ ConfirmKey
    \/ Finish

SpecConfirm == ConfirmInit /\ [][ConfirmNext]_vars

\* C30: from an empty bullet at level L in 1..5 with pendingExit false, a run
\* of Confirm keystrokes ends the session as saved on exactly the (L+1)-th
\* Confirm: after k < L of them the line is an empty bullet at level L - k
\* and pendingExit is false, after the L-th the level is 1 and pendingExit is
\* set, and the session is over exactly when L + 1 of them were pressed.
ConfirmRunExitsAfterLevelPlusOne ==
    LET info == get_line_bullet_info(CurrentLine(text, cursor))
    IN  /\ pc = "running" =>
              /\ keys <= input
              /\ info.bullet_char # NoBullet /\ Strip(info.content) = <<>>
              /\ (info.spaces \div 2) + 1 = (IF keys < input THEN input - keys ELSE 1)
              /\ last_enter_was_empty <=> (keys = input)
              /\ ~save_on_exit
        /\ pc # "running" =>
              /\ keys = input + 1
              /\ save_on_exit
              /\ exit_key = "enter"

ConfirmRunWitness ==
    /\ pc = "done"
    /\ input = MAX_LEVEL
    /\ keys = MAX_LEVEL + 1
    /\ save_on_exit
    /\ Len(text) > 2

---------------------------------------------------------------------------
(* Indent keys alone: Tab and Shift-Tab pressed in a planned order on a line
   of any indentation and marker, alone or between two other lines *)

\* keys in one plan
MaxIndentKeys == 2

RECURSIVE KeyPlans(_)
KeyPlans(n) ==
    IF n = 0 THEN {<<>>}
    ELSE {Append(p, k) : p \in KeyPlans(n - 1), k \in {"tab", "backtab"}}

\* buffers the cursor can stand in: the current line has any indentation up
\* to one past level MAX_LEVEL, any marker or none, and the cursor anywhere
IndentBuffers ==
    { [text   |-> around[1] \o Spaces(n) \o marker \o body \o around[2],
       cursor |-> Len(around[1]) + col,
       on_line |-> col <= n + Len(marker) + Len(body)] :
        n \in 0..(Len(INDENT) * (MAX_LEVEL - 1) + 1),
        marker \in {<<>>} \cup {<<g, SP>> : g \in Markers},
        body \in {<<>>, <<SP, "a">>},
        around \in {<< <<>>, <<>> >>, << <<"*", SP, "a", NL>>, <<NL, "*", SP, "b">> >>},
        col \in 0..(Len(INDENT) * (MAX_LEVEL - 1) + 5) }

\* lines 204-207 and the handlers before: a running session whose cursor has
\* come to stand somewhere; input keeps the document and the keys to come
IndentInit ==
    /\ content = TwoBulletFile
    /\ \E b \in IndentBuffers, plan \in KeyPlans(MaxIndentKeys) :
          /\ b.on_line
          /\ text = b.text
          /\ cursor = b.cursor
          /\ input = [text |-> b.text, cursor |-> b.cursor, plan |-> plan]
    /\ preferred_column = -1
    /\ last_enter_was_empty = FALSE
    /\ save_on_exit = FALSE
    /\ next_file = NoFile
    /\ all_files = <<>>
    /\ current_index = 0
    /\ pc = "running"
    /\ exit_key = ""
    /\ keys = 0
    /\ file_exists = TRUE
    /\ file_content = content
    /\ file_ops = <<>>
    /\ disk = NoJournal
    /\ output = <<>>

Planned(k) == keys < Len(input.plan) /\ input.plan[keys + 1] = k

\* lines 281-286, when Tab is the key that comes
IndentTab == Planned("tab") /\ HandleTab

\* lines 288-293, when Shift-Tab is the key that comes
IndentShiftTab == Planned("backtab") /\ HandleShiftTab

IndentNext ==
    \/ IndentTab
    \/ IndentShiftTab

SpecIndent == IndentInit /\ [][IndentNext]_vars

\* the cursor of doc stands at or after the start of the content of a line
\* with the indentation and the glyph of a level below MAX_LEVEL
CanonicalBelowMax(doc) ==
    LET info == get_line_bullet_info(CurrentLine(doc.text, doc.cursor))
    IN  \E L \in 1..(MAX_LEVEL - 1) :
           /\ info.spaces = Len(INDENT) * (L - 1)
           /\ <<info.bullet_char, SP>> = get_bullet_for_level(L)
           /\ Col(doc.text, doc.cursor) >= info.spaces + Len(get_bullet_for_level(L))

\* C32: on a line with indentation 2*(L-1), the glyph of level L, 1 <= L < 5,
\* and the cursor at or after the start of the content, Tab followed by
\* Shift-Tab leaves the buffer text and the cursor as they were.
IndentThenOutdentRestores ==
    (/\ keys = 2
     /\ SubSeq(input.plan, 1, 2) = <<"tab", "backtab">>
     /\ CanonicalBelowMax(input))
        => (text = input.text /\ cursor = input.cursor)

\* Tab and Shift-Tab have been pressed on a level-2 line with the cursor
\* inside its content, between two other lines
IndentThenOutdentWitness ==
    /\ keys = 2
    /\ SubSeq(input.plan, 1, 2) = <<"tab", "backtab">>
    /\ CanonicalBelowMax(input)
    /\ CurLevel(input.text, input.cursor) = 2
    /\ Col(input.text, input.cursor) = Len(INDENT) + 3
    /\ Newlines(input.text) = 2

\* C33: Tab and Shift-Tab change only the leading indentation and the marker
\* of the current line: the text before the line, the text after it, the
\* number of lines and the content after the marker stay as they were.
IndentChangesOnlyPrefix ==
    [][LET line_start == LineStart(text, cursor)
           line_end   == LineEnd(text, cursor)
       IN  /\ LineStart(text', cursor') = line_start
           /\ Upto(text', line_start) = Upto(text, line_start)
           /\ From(text', LineEnd(text', cursor')) = From(text, line_end)
           /\ Newlines(text') = Newlines(text)
           /\ get_line_bullet_info(CurrentLine(text', cursor')).content
                = get_line_bullet_info(CurrentLine(text, cursor)).content]_vars

\* Shift-Tab has rewritten a hyphen line that stands between two other lines
\* and has content after its marker
IndentChangesOnlyPrefixWitness ==
    /\ keys = 1
    /\ input.plan[1] = "backtab"
    /\ text # input.text
    /\ Newlines(text) = 2
    /\ LET info == get_line_bullet_info(CurrentLine(input.text, input.cursor))
       IN  info.bullet_char = HY /\ info.content # <<>>

---------------------------------------------------------------------------
(* The `new` command called again and again on one day.  Every file of the
   model carries today's date prefix; a file is named by what follows the
   prefix in its stem, stem[8:], so len(stem) == 10 is Len(suffix) = 2. *)

DigitChars == <<"0", "1", "2", "3", "4", "5", "6", "7", "8", "9">>

IsDigit(c) == \E i \in 1..Len(DigitChars) : DigitChars[i] = c

DigitValue(c) == (CHOOSE i \in 1..Len(DigitChars) : DigitChars[i] = c) - 1

\* int(stem[8:10]) of a two-character suffix: the set holding the number, or
\* the empty set where int() raises ValueError; int() takes a sign and
\* strips blanks
IntOfSuffix(s) ==
    IF IsDigit(s[1]) /\ IsDigit(s[2]) THEN {10 * DigitValue(s[1]) + DigitValue(s[2])}
    ELSE IF s[1] = HY /\ IsDigit(s[2]) THEN {0 - DigitValue(s[2])}
    ELSE IF s[1] \in {"+", SP} /\ IsDigit(s[2]) THEN {DigitValue(s[2])}
    ELSE IF IsDigit(s[1]) /\ s[2] = SP THEN {DigitValue(s[1])}
    ELSE {}

\* str(n) for n >= 0
RECURSIVE DecimalDigits(_)
DecimalDigits(n) ==
    IF n < 10 THEN <<DigitChars[n + 1]>>
    ELSE DecimalDigits(n \div 10) \o <<DigitChars[(n % 10) + 1]>>

\* f"{n:02d}": zero-padded to a width of at least two, the sign counted in
\* the width, and as wide as the number needs beyond that
FormatTwoDigits(n) ==
    IF n < 0 THEN <<HY>> \o DecimalDigits(0 - n)
    ELSE IF n < 10 THEN <<"0">> \o DecimalDigits(n)
    ELSE DecimalDigits(n)

SetMax(S) == CHOOSE x \in S : \A y \in S : y <= x

\* lines 676-702, given the suffixes of the files glob(f"{today_prefix}*.md")
\* finds
get_next_increment(existing_files) ==
    LET increments == UNION {IntOfSuffix(s) : s \in {f \in existing_files : Len(f) = 2}}
    IN  IF existing_files = {} THEN <<"0", "1">>
        ELSE IF increments = {} THEN <<"0", "1">>
        ELSE FormatTwoDigits(SetMax(increments) + 1)

\* calls of `new` in one day
MaxNewCalls == 3

\* same-day files a journal directory may already hold
SameDaySuffixes ==
    { <<"0", "1">>, <<"0", "3">>, <<"9", "8">>, <<"9", "9">>, <<"1", "0", "0">>,
      <<"a", "b">>, <<HY, "1">>, <<"1">> }

\* the journal directory before the first call of the day
NewInit ==
    /\ SessionIdle
    /\ pc = "shell"
    /\ input \in SUBSET SameDaySuffixes
    /\ output = input
    /\ file_exists = FALSE
    /\ file_content = <<>>
    /\ file_ops = <<>>

\* lines 722-762 with the session's effect on the file (lines 628-646): the
\* frontmatter is written to today's prefix + increment, then the session
\* leaves the file in place or unlinks it as an empty dump.  output is the
\* directory, file_ops the log of writes with what each write found
New ==
    /\ pc = "shell"
    /\ Len(file_ops) < MaxNewCalls
    /\ LET filename == get_next_increment(output)
       IN  /\ file_ops' = Append(file_ops, [filename |-> filename,
                                            existed  |-> filename \in output])
           /\ \E kept \in BOOLEAN :
                 output' = IF kept THEN output \cup {filename} ELSE output \ {filename}
    /\ UNCHANGED <<sessionVars, pc, input, file_exists, file_content>>

NewNext == New

SpecNew == NewInit /\ [][NewNext]_vars

\* C34 as stated: no call of `new` writes its frontmatter to a filename that
\* was in the directory before the call.
NewNeverOverwrites ==
    \A i \in 1..Len(file_ops) : ~file_ops[i].existed

\* below the last two-digit sequence number the statement holds: while no
\* file of the day carries the sequence 99, `new` writes to a name that was
\* not there
NewCreatesBelowLastSequence ==
    [][(New /\ <<"9", "9">> \notin output) => ~file_ops'[Len(file_ops')].existed]_vars

---------------------------------------------------------------------------
(* The `sync` command: one step for every git command it runs.  output is
   the list of the commands run so far with their results, input holds the
   locals has_changes and stashed, the exit code of the command and the
   number of times the command has been called. *)

NotEnded == -1

\* calls of `sync`, one after the other
MaxSyncRuns == 2

\* results subprocess.run can hand back for a command: a return code and the
\* phrase of stdout or stderr the code looks for, "" when it is absent
Result(rc, out, err) == [returncode |-> rc, stdout |-> out, stderr |-> err]

PlainResults == {Result(0, "", ""), Result(1, "", "")}

StatusResults == PlainResults \cup {Result(0, "M file", "")}

StashResults == PlainResults \cup {Result(0, "No local changes", "")}

CommitResults ==
    PlainResults \cup {Result(1, "nothing to commit", ""), Result(1, "", "nothing to commit")}

Ran(cmd, result) == output' = Append(output, [cmd |-> cmd, result |-> result])

\* the session variables play no part
SyncIdle == SessionIdle /\ file_exists = FALSE /\ file_content = <<>> /\ file_ops = <<>>

syncFrame == <<sessionVars, diskVars>>

\* lines 903-905: the command is called
SyncInit ==
    /\ SyncIdle
    /\ pc = "sync"
    /\ input = [has_changes |-> FALSE, stashed |-> FALSE, exit_code |-> NotEnded,
                run |-> 1]
    /\ output = <<>>

\* lines 903-905: the command is called again after it has ended
SyncAgain ==
    /\ pc = "ended"
    /\ input.run < MaxSyncRuns
    /\ pc' = "sync"
    /\ input' = [has_changes |-> FALSE, stashed |-> FALSE, exit_code |-> NotEnded,
                 run |-> input.run + 1]
    /\ output' = <<>>
    /\ UNCHANGED <<sessionVars, diskVars>>

\* lines 1026-1030: raise Exception inside the try, typer.Exit(1) from the
\* handler
Raise ==
    /\ pc' = "ended"
    /\ input' = [input EXCEPT !.exit_code = 1]

\* lines 906-920: the checks before the try
SyncChecks ==
    /\ pc = "sync"
    /\ \E is_git_repo \in BOOLEAN, has_remote \in BOOLEAN :
          IF is_git_repo /\ has_remote
          THEN pc' = "fetch" /\ UNCHANGED input
          ELSE Raise
    /\ UNCHANGED <<output, syncFrame>>

\* lines 928-935
GitFetch ==
    /\ pc = "fetch"
    /\ \E result \in PlainResults :
          /\ Ran("fetch", result)
          /\ IF result.returncode # 0
             THEN Raise
             ELSE pc' = "status" /\ UNCHANGED input
    /\ UNCHANGED syncFrame

\* lines 938-939 and 819-829: has_uncommitted_changes
GitStatus ==
    /\ pc = "status"
    /\ \E result \in StatusResults :
          LET has_changes == result.returncode = 0 /\ result.stdout # ""
          IN  /\ Ran("status", result)
              /\ input' = [input EXCEPT !.has_changes = has_changes]
              /\ pc' = IF has_changes THEN "add_to_stash" ELSE "pull"
    /\ UNCHANGED syncFrame

\* lines 941-950
GitAddToStash ==
    /\ pc = "add_to_stash"
    /\ \E result \in PlainResults :
          /\ Ran("add", result)
          /\ IF result.returncode # 0
             THEN Raise
             ELSE pc' = "stash" /\ UNCHANGED input
    /\ UNCHANGED syncFrame

\* lines 952-959
GitStashPush ==
    /\ pc = "stash"
    /\ \E result \in StashResults :
          /\ Ran("stash push", result)
          /\ input' = [input EXCEPT !.stashed =
                          result.returncode = 0 /\ result.stdout # "No local changes"]
          /\ pc' = "pull"
    /\ UNCHANGED syncFrame

\* a pull whose failure raises at once, stash or no stash
GitPullRaisingAtOnce ==
    /\ pc = "pull"
    /\ \E result \in PlainResults :
          /\ Ran("pull", result)
          /\ IF result.returncode # 0
             THEN Raise
             ELSE /\ pc' = IF input.stashed THEN "pop" ELSE "add"
                  /\ UNCHANGED input
    /\ UNCHANGED syncFrame

\* lines 961-968, 978-979: git pull --rebase and what its result leads to
GitPull ==
    /\ pc = "pull"
    /\ \E result \in PlainResults :
          /\ Ran("pull", result)
          /\ IF result.returncode # 0
             THEN IF input.stashed
                  THEN pc' = "restore" /\ UNCHANGED input
                  ELSE Raise
             ELSE /\ pc' = IF input.stashed THEN "pop" ELSE "add"
                  /\ UNCHANGED input
    /\ UNCHANGED syncFrame

\* lines 969-976: the stash pop after a failed pull, its result not looked at
GitStashPopAfterFailedPull ==
    /\ pc = "restore"
    /\ \E result \in PlainResults : Ran("stash pop", result)
    /\ Raise
    /\ UNCHANGED syncFrame

\* lines 979-987
GitStashPop ==
    /\ pc = "pop"
    /\ \E result \in PlainResults :
          /\ Ran("stash pop", result)
          /\ IF result.returncode # 0
             THEN Raise
             ELSE pc' = "add" /\ UNCHANGED input
    /\ UNCHANGED syncFrame

\* lines 989-997
GitAdd ==
    /\ pc = "add"
    /\ \E result \in PlainResults :
          /\ Ran("add", result)
          /\ IF result.returncode # 0
             THEN Raise
             ELSE pc' = "commit" /\ UNCHANGED input
    /\ UNCHANGED syncFrame

\* a commit whose result is never looked at
GitCommitUnchecked ==
    /\ pc = "commit"
    /\ \E result \in CommitResults : Ran("commit", result)
    /\ pc' = "push"
    /\ UNCHANGED <<input, syncFrame>>

\* lines 999-1009
GitCommit ==
    /\ pc = "commit"
    /\ \E result \in CommitResults :
          /\ Ran("commit", result)
          /\ IF /\ result.returncode # 0
                /\ result.stdout # "nothing to commit"
                /\ result.stderr # "nothing to commit"
             THEN Raise
             ELSE pc' = "push" /\ UNCHANGED input
    /\ UNCHANGED syncFrame

\* lines 1011-1024
GitPush ==
    /\ pc = "push"
    /\ \E result \in PlainResults :
          /\ Ran("push", result)
          /\ IF result.returncode # 0
             THEN Raise
             ELSE /\ pc' = "ended"
                  /\ input' = [input EXCEPT !.exit_code = 0]
    /\ UNCHANGED syncFrame

SyncNext ==
    \/ SyncChecks
    \/ GitFetch
    \/ GitStatus
    \/ GitAddToStash
    \/ GitStashPush
    \/ GitPull
    \/ GitStashPopAfterFailedPull
    \/ GitStashPop
    \/ GitAdd
    \/ GitCommit
    \/ GitPush
    \/ SyncAgain

SpecSync == SyncInit /\ [][SyncNext]_vars

\* positions of the log at which cmd was run
RunsOf(cmd) == {i \in 1..Len(output) : output[i].cmd = cmd}

Succeeded(i) == output[i].result.returncode = 0

NothingToCommit(i) ==
    "nothing to commit" \in {output[i].result.stdout, output[i].result.stderr}

\* C35: when local changes were stashed, git stash pop is run before the
\* command ends, after a pull that succeeded and after a pull that failed:
\* once the pull has returned the next command is the pop, and the command
\* never ends with a stash and without a pop after the stash push.
StashIsPopped ==
    /\ (input.stashed /\ pc = "ended")
          => \E i \in RunsOf("stash push"), j \in RunsOf("stash pop") : i < j
    /\ (input.stashed /\ RunsOf("pull") # {} /\ pc \notin {"restore", "pop"})
          => \E i \in RunsOf("pull"), j \in RunsOf("stash pop") : j = i + 1

\* the command has ended after a stash, a failed pull and the pop
StashIsPoppedWitness ==
    /\ pc = "ended"
    /\ input.stashed
    /\ \E i \in RunsOf("pull") : ~Succeeded(i)
    /\ RunsOf("stash pop") # {}

\* C36: git push runs only after fetch, pull, the stash pop when changes
\* were stashed and the add after the pull have succeeded, in this order,
\* and commit has succeeded or reported nothing to commit; after a failure
\* of fetch, pull, stash pop after a good pull, add or commit no add, commit
\* or push is run, and the command ends with exit code 1.
PushOnlyAfterAllSucceeded ==
    /\ \A p \in RunsOf("push") :
          /\ Succeeded(1) /\ output[1].cmd = "fetch"
          /\ \E i \in RunsOf("pull") :
                /\ Succeeded(i)
                /\ input.stashed =>
                      (output[i + 1].cmd = "stash pop" /\ Succeeded(i + 1))
                /\ LET a == IF input.stashed THEN i + 2 ELSE i + 1
                   IN  /\ output[a].cmd = "add" /\ Succeeded(a)
                       /\ output[a + 1].cmd = "commit"
                       /\ (Succeeded(a + 1) \/ NothingToCommit(a + 1))
                       /\ p = a + 2
    /\ \A i \in 1..Len(output) :
          (/\ output[i].cmd \in {"fetch", "pull", "stash pop", "add", "commit"}
           /\ ~Succeeded(i)
           /\ ~(output[i].cmd = "commit" /\ NothingToCommit(i)))
             => /\ \A j \in (i + 1)..Len(output) :
                      output[j].cmd \notin {"add", "commit", "push"}
                /\ pc \in {"restore", "ended"}
                /\ pc = "ended" => input.exit_code = 1

\* a push has run after a stash, a good pull, the pop, the add and a commit
\* that found nothing to commit
PushWitness ==
    /\ input.stashed
    /\ RunsOf("push") # {}
    /\ \E c \in RunsOf("commit") : NothingToCommit(c)

=============================================================================
